---- MODULE Spec2Model ----
(***************************************************************************)
(* Model of the Diwan migration scripts:                                   *)
(*   fix_errors.py          five per-file patchers built from re.sub rules *)
(*   fix_notifications.py   one re.sub rule run over two files             *)
(*   fix_user_controller.py the positional (line-indexed) pass             *)
(*                                                                         *)
(* Text is a sequence of tokens.  A token is a literal piece of source     *)
(* text; every piece of text a pattern or a guard looks for is a whole     *)
(* number of tokens, and the characters the code tests one by one          *)
(* (newline, '{', '}', ',' and white space) are tokens of their own.       *)
(***************************************************************************)
EXTENDS Integers, Sequences, FiniteSets, TLC

(***************************************************************************)
(* Text helpers                                                            *)
(***************************************************************************)
NL == "\n"
CR == "\r"
SP == " "
IND2 == "  "
IND4 == "    "
IND6 == "      "
IND8 == "        "
IND10 == "          "
IND12 == "            "
IND14 == "              "

\* what \s matches and what str.lstrip() / str.isspace() regard as white space
WS == {SP, NL, CR, IND2, IND4, IND6, IND8, IND10, IND12, IND14}

\* the one element of a singleton set
The(S) == CHOOSE x \in S : TRUE

Min(a, b) == IF a < b THEN a ELSE b
Max(a, b) == IF a > b THEN a ELSE b

RECURSIVE Flatten(_)
Flatten(ss) == IF ss = <<>> THEN <<>> ELSE Head(ss) \o Flatten(Tail(ss))

\* s occurs in t at position p (1-based)
OccursAt(s, t, p) ==
    /\ p >= 1
    /\ p + Len(s) - 1 <= Len(t)
    /\ \A q \in 1..Len(s) : t[p + q - 1] = s[q]

\* Python's  `s in t`  for strings
Contains(t, s) == \E p \in 1..(Len(t) + 1) : OccursAt(s, t, p)

\* Python's  t.replace(old, new): every non-overlapping occurrence, left to right
RECURSIVE ReplaceFrom(_, _, _, _)
ReplaceFrom(t, old, new, p) ==
    IF p > Len(t) THEN <<>>
    ELSE IF OccursAt(old, t, p)
         THEN new \o ReplaceFrom(t, old, new, p + Len(old))
         ELSE <<t[p]>> \o ReplaceFrom(t, old, new, p + 1)

Replace(t, old, new) == ReplaceFrom(t, old, new, 1)

\* Python's  t.lstrip()
RECURSIVE LStrip(_)
LStrip(t) == IF t # <<>> /\ Head(t) \in WS THEN LStrip(Tail(t)) ELSE t

(***************************************************************************)
(* re.sub: patterns, matching with greedy quantifiers and backtracking,    *)
(* left-to-right non-overlapping substitution                              *)
(***************************************************************************)
\* a pattern is a sequence of items; an item is a class of tokens with a
\* quantifier: "1" exactly one, "*" zero or more, "+" one or more (greedy)
\* neg: the class is the complement of c, as in [^...]
One(c) == [c |-> c, neg |-> FALSE, q |-> "1"]
Star(c) == [c |-> c, neg |-> FALSE, q |-> "*"]
Plus(c) == [c |-> c, neg |-> FALSE, q |-> "+"]
PlusNot(c) == [c |-> c, neg |-> TRUE, q |-> "+"]
Lit(t) == One({t})
Lits(ts) == [j \in 1..Len(ts) |-> Lit(ts[j])]

\* replacement template: literal tokens and group references \k
T(t) == [g |-> 0, t |-> t]
G(k) == [g |-> k, t |-> ""]
Ts(ts) == [j \in 1..Len(ts) |-> T(ts[j])]

NoMatch == <<0>>

InClass(tok, it) == (tok \in it.c) # it.neg

\* number of consecutive tokens of the item's class in buf from position pos
RECURSIVE RunLen(_, _, _)
RunLen(it, buf, pos) ==
    IF pos <= Len(buf) /\ InClass(buf[pos], it) THEN 1 + RunLen(it, buf, pos + 1) ELSE 0

\* MatchFrom: the positions after items j..Len(pat) of the first successful
\* way (in the backtracking order of re) to match them at pos, or NoMatch
RECURSIVE MatchFrom(_, _, _, _)
RECURSIVE TryCount(_, _, _, _, _, _)
TryCount(pat, j, buf, pos, n, lo) ==
    IF n < lo THEN NoMatch
    ELSE LET rest == MatchFrom(pat, j + 1, buf, pos + n)
         IN IF rest # NoMatch THEN <<pos + n>> \o rest
            ELSE TryCount(pat, j, buf, pos, n - 1, lo)

MatchFrom(pat, j, buf, pos) ==
    IF j > Len(pat) THEN <<>>
    ELSE LET run == RunLen(pat[j], buf, pos)
             lo == IF pat[j].q = "*" THEN 0 ELSE 1
             hi == IF pat[j].q = "1" THEN Min(run, 1) ELSE run
         IN TryCount(pat, j, buf, pos, hi, lo)

\* item boundaries of the match of pat at pos: b[j] is where item j starts,
\* b[Len(pat)+1] is the position after the match; NoMatch if none
MatchAt(pat, buf, pos) ==
    LET m == MatchFrom(pat, 1, buf, pos)
    IN IF m = NoMatch THEN NoMatch ELSE <<pos>> \o m

MatchEnd(b) == b[Len(b)]

\* the text of group k of rule r in the match with boundaries b
GroupTextAbsolute(r, buf, b, k) ==
    SubSeq(buf, r.grp[k][1], r.grp[k][2])
GroupText(r, buf, b, k) ==
    SubSeq(buf, b[r.grp[k][1]], b[r.grp[k][2] + 1] - 1)

\* the replacement template expanded with the groups of the match
Expand(r, buf, b) ==
    Flatten([j \in 1..Len(r.rep) |->
               IF r.rep[j].g = 0 THEN <<r.rep[j].t>>
               ELSE GroupText(r, buf, b, r.rep[j].g)])

\* every <<start, end>> (end exclusive) at which the pattern of r matches in buf
Hits(r, buf) ==
    {<<p, MatchEnd(MatchAt(r.pat, buf, p))>> :
        p \in {q \in 1..Len(buf) : MatchAt(r.pat, buf, q) # NoMatch}}

\* the spans re.sub replaces: leftmost first, scanning resumes at a span's
\* end; `left` is the number of replacements still allowed (count=0 of
\* re.sub: no limit, here -1)
RECURSIVE SpansFrom(_, _, _)
SpansFrom(hits, pos, left) ==
    IF left = 0 \/ \A h \in hits : h[1] < pos THEN <<>>
    ELSE \* the leftmost hit at or after pos
         LET h == CHOOSE h \in hits : h[1] >= pos /\ \A g \in hits : g[1] >= pos => h[1] <= g[1]
         IN <<h>> \o SpansFrom({g \in hits : g[1] >= h[2]}, h[2],
                                IF left > 0 THEN left - 1 ELSE left)

Limit(r) == IF r.count = 0 THEN -1 ELSE r.count

Spans(r, buf) == SpansFrom(Hits(r, buf), 1, Limit(r))

\* buf with each span of sp replaced by the expanded template of r
SubSpans(r, buf, sp) ==
    Flatten([n \in 1..(2 * Len(sp) + 1) |->
               IF n % 2 = 0
               THEN Expand(r, buf, MatchAt(r.pat, buf, sp[n \div 2][1]))
               ELSE SubSeq(buf,
                           IF n = 1 THEN 1 ELSE sp[(n - 1) \div 2][2],
                           IF n = 2 * Len(sp) + 1 THEN Len(buf)
                           ELSE sp[(n + 1) \div 2][1] - 1)])

\* re.sub(pattern, repl, buf, count)
Sub(r, buf) == The({SubSpans(r, buf, sp) : sp \in {Spans(r, buf)}})

(***************************************************************************)
(* The rules of fix_errors.py and fix_notifications.py                     *)
(***************************************************************************)
Rule(pat, grp, rep, count) == [pat |-> pat, grp |-> grp, rep |-> rep, count |-> count]

Ws0 == <<Star(WS)>>
KV(key, val) == <<Lit(key), Lit(SP), Lit(val)>>

\* tokens that hold a ',' inside: no part of a [^,...] run
CommaInside == {"console.error('Error fetching users:', error);"}

\* r"orderBy: \{ createdAt: 'desc' \}" -> "orderBy: { timestamp: 'desc' }"
RuleOrderBy ==
    Rule(Lits(<<"orderBy:", SP, "{", SP, "createdAt:", SP, "'desc'", SP, "}">>),
         <<>>,
         Ts(<<"orderBy:", SP, "{", SP, "timestamp:", SP, "'desc'", SP, "}">>), 0)

\* r"createdAt: true,\s*user:" -> "timestamp: true,\n        user:"
RuleStatusCreatedAt ==
    Rule(KV("createdAt:", "true") \o <<Lit(",")>> \o Ws0 \o Lits(<<"user", ":">>),
         <<>>,
         Ts(<<"timestamp:", SP, "true", ",", NL, IND8, "user", ":">>), 0)

\* r"userId: (validatedData\.assignToId|document\.createdById|doc\.createdById)"
\*   -> r"recipientUserId: \1"
RuleStatusUserId ==
    Rule(<<Lit("userId:"), Lit(SP),
           One({"validatedData.assignToId", "document.createdById", "doc.createdById"})>>,
         <<<<3, 3>>>>,
         <<T("recipientUserId:"), T(SP), G(1)>>, 0)

\* r"select: \{ id: true, fullName: true, role: true, status: true \}"
RuleStatusSelect ==
    Rule(Lits(<<"select:", SP, "{", SP, "id:", SP, "true", ",", SP, "fullName:", SP,
                "true", ",", SP, "role:", SP, "true", ",", SP, "status:", SP, "true",
                SP, "}">>),
         <<>>,
         Ts(<<"select:", SP, "{", SP, "id:", SP, "true", ",", SP, "fullName:", SP,
              "true", ",", SP, "role:", SP, "true", ",", SP, "isActive:", SP, "true",
              SP, "}">>), 0)

\* r"assignee\.status !== 'ACTIVE'" -> "!assignee.isActive"
RuleAssignee ==
    Rule(Lits(<<"assignee.status", SP, "!==", SP, "'ACTIVE'">>),
         <<>>,
         Ts(<<"!assignee.isActive">>), 0)

StatusRules ==
    <<RuleOrderBy, RuleStatusCreatedAt, RuleStatusUserId, RuleStatusSelect, RuleAssignee>>

\* r"import \{ PrismaClient, Role, UserStatus \} from '\.\./generated/prisma';"
RuleImport ==
    Rule(Lits(<<"import", SP, "{", SP, "PrismaClient", ",", SP, "Role, UserStatus", SP,
                "}", SP, "from '../generated/prisma';">>),
         <<>>,
         Ts(<<"import", SP, "{", SP, "PrismaClient", ",", SP, "UserRole", SP,
              "}", SP, "from '../generated/prisma';">>), 0)

\* r"createdAt: true,\s*(details|user):" -> r"timestamp: true,\n          \1:"
RuleUserCreatedAt ==
    Rule(KV("createdAt:", "true") \o <<Lit(",")>> \o Ws0
           \o <<One({"details", "user"}), Lit(":")>>,
         <<<<6, 6>>>>,
         Ts(<<"timestamp:", SP, "true", ",", NL, IND10>>) \o <<G(1), T(":")>>, 0)

\* r"userId: (newUser\.id|updatedUser\.id|existingUser\.id)" -> r"recipientUserId: \1"
RuleUserUserId ==
    Rule(<<Lit("userId:"), Lit(SP), One({"newUser.id", "updatedUser.id", "existingUser.id"})>>,
         <<<<3, 3>>>>,
         <<T("recipientUserId:"), T(SP), G(1)>>, 0)

\* r"status: z\.nativeEnum\(UserStatus\)\.optional\(\)" -> "isActive: z.boolean().optional()"
RuleZodStatus ==
    Rule(Lits(<<"status:", SP, "z.nativeEnum(UserStatus)", ".optional()">>),
         <<>>,
         Ts(<<"isActive:", SP, "z.boolean()", ".optional()">>), 0)

\* r"status: 'ACTIVE'" -> "isActive: true"
RuleStatusActive ==
    Rule(KV("status:", "'ACTIVE'"), <<>>, Ts(<<"isActive:", SP, "true">>), 0)

\* r"errors: error\.errors" -> "errors: error.issues"
RuleZodErrors ==
    Rule(KV("errors:", "error.errors"), <<>>, Ts(<<"errors:", SP, "error.issues">>), 0)

\* r",\s*status: true" -> ""
RuleDropStatus ==
    Rule(<<Lit(",")>> \o Ws0 \o KV("status:", "true"), <<>>, <<>>, 0)

\* r"(departmentId: true,\s*createdAt: true,\s*updatedAt: true,)"
\*   -> r"\1\n          _count: {\n            select: {\n ... }\n          },"
RuleAddCount ==
    Rule(KV("departmentId:", "true") \o <<Lit(",")>> \o Ws0
           \o KV("createdAt:", "true") \o <<Lit(",")>> \o Ws0
           \o KV("updatedAt:", "true") \o <<Lit(",")>>,
         <<<<1, 14>>>>,
         <<G(1)>> \o Ts(<<NL, IND10, "_count:", SP, "{",
                          NL, IND12, "select:", SP, "{",
                          NL, IND14, "createdDocuments:", SP, "true", ",",
                          NL, IND14, "assignedDocuments:", SP, "true",
                          NL, IND12, "}",
                          NL, IND10, "}", ",">>), 0)

\* r"(\}\);\s*\}\s*catch \(error\) \{\s*console\.error\('Error fetching users:', error\);
\*    \s*res\.status\(500\)\.json\(\{ message: 'Internal server error' \}\);\s*\}\s*\};)",
\* count=1; the replacement does not use the group
RuleCatchReturn ==
    Rule(Lits(<<"}", ");">>) \o Ws0 \o <<Lit("}")>> \o Ws0
           \o Lits(<<"catch (error)", SP, "{">>) \o Ws0
           \o <<Lit("console.error('Error fetching users:', error);")>> \o Ws0
           \o Lits(<<"res.status(500).json(", "{", SP, "message:", SP,
                     "'Internal server error'", SP, "}", ");">>) \o Ws0
           \o <<Lit("}")>> \o Ws0 \o Lits(<<"}", ";">>),
         <<<<1, 25>>>>,
         Ts(<<IND2, "}", SP, "catch (error)", SP, "{",
              NL, IND4, "console.error('Error fetching users:', error);",
              NL, IND4, "return", SP, "res.status(500).json(", "{", SP, "message:", SP,
              "'Internal server error'", SP, "}", ");",
              NL, IND2, "}", NL, "}", ";">>), 1)

UserRules ==
    <<RuleImport, RuleOrderBy, RuleUserCreatedAt, RuleUserUserId, RuleZodStatus,
      RuleStatusActive, RuleZodErrors, RuleDropStatus, RuleAddCount, RuleCatchReturn>>

\* r"mode: 'insensitive'" -> "mode: 'insensitive' as const"
RuleAsConst ==
    Rule(KV("mode:", "'insensitive'"), <<>>,
         Ts(<<"mode:", SP, "'insensitive'", SP, "as const">>), 0)

\* r"categories: \{" -> "category: {"
RuleCategory ==
    Rule(KV("categories:", "{"), <<>>, Ts(<<"category:", SP, "{">>), 0)

\* r"role: true,\s*status: true," -> "role: true,"
RuleRoleStatus ==
    Rule(KV("role:", "true") \o <<Lit(",")>> \o Ws0 \o KV("status:", "true") \o <<Lit(",")>>,
         <<>>,
         Ts(<<"role:", SP, "true", ",">>), 0)

\* r"(\s+users: users\.map\(user => \(\{[^}]+department: user\.department\?\.name)" -> r"\1"
RuleDepartment ==
    Rule(<<Plus(WS), Lit("users: users.map(user => ("), Lit("{"), PlusNot({"}"}),
           Lit("department: user.department?.name")>>,
         <<<<1, 5>>>>,
         <<G(1)>>, 0)

\* r"\{ content: \{ contains: query, mode: 'insensitive' as const \} \}," -> ""
RuleDropContent ==
    Rule(Lits(<<"{", SP, "content:", SP, "{", SP, "contains:", SP, "query", ",", SP,
                "mode:", SP, "'insensitive'", SP, "as const", SP, "}", SP, "}", ",">>),
         <<>>, <<>>, 0)

SearchRules ==
    <<RuleAsConst, RuleCategory, RuleRoleStatus, RuleStatusActive, RuleDepartment,
      RuleDropContent>>

\* r"return res\.status\(429\)\.json\(response\);" -> "res.status(429).json(response);\n      return;"
\* count=1
RuleAuthReturn ==
    Rule(Lits(<<"return", SP, "res.status(429).json(response);">>), <<>>,
         Ts(<<"res.status(429).json(response);", NL, IND6, "return", ";">>), 1)

AuthRules == <<RuleAuthReturn>>

\* r"(next\(\);\s*\};)" -> r"return next();\n};"
RuleNextReturn ==
    Rule(<<Lit("next();")>> \o Ws0 \o Lits(<<"}", ";">>),
         <<<<1, 4>>>>,
         Ts(<<"return", SP, "next();", NL, "}", ";">>), 0)

UploadRules == <<RuleNextReturn>>

\* fix_notifications.py:
\* r'(\s+)recipientUserId: ([^,\n]+),\n\s+title: [^\n]+,\n\s+message: ([^\n]+),\n
\*    \s+type: [^\n]+,\n\s+relatedId: ([^\n]+)'
RestOfLine == PlusNot({NL})
RuleNotification ==
    Rule(<<Plus(WS), Lit("recipientUserId:"), Lit(SP), PlusNot({",", NL} \cup CommaInside),
           Lit(","), Lit(NL),
           Plus(WS), Lit("title:"), Lit(SP), RestOfLine, Lit(","), Lit(NL),
           Plus(WS), Lit("message:"), Lit(SP), RestOfLine, Lit(","), Lit(NL),
           Plus(WS), Lit("type:"), Lit(SP), RestOfLine, Lit(","), Lit(NL),
           Plus(WS), Lit("relatedId:"), Lit(SP), RestOfLine>>,
         <<<<1, 1>>, <<4, 4>>, <<16, 16>>, <<28, 28>>>>,
         <<G(1), T("recipientUserId:"), T(SP), G(2), T(","), T(NL),
           G(1), T("message:"), T(SP), G(3), T(","), T(NL),
           G(1), T("messageAr:"), T(SP), G(3), T(","), T(SP),
                 T("// TODO: Add Arabic translation"), T(NL),
           G(1), T("documentId:"), T(SP), G(4), T(","), T(NL),
           G(1), T("departmentId:"), T(SP), T("currentUser.departmentId || \"\"")>>, 0)

NotificationRules == <<RuleNotification>>

(***************************************************************************)
(* fix_user_controller.py: the positional pass                             *)
(***************************************************************************)
\* str.splitlines(): a line ends at "\n", "\r" or "\r\n"; the terminators are
\* dropped and a terminator at the very end opens no further line.
\* Pieces(t, a, b) is t[a..b] cut at its terminators, the text after the last
\* terminator (possibly empty) being the last piece; computed by halving, so
\* that a long file needs no deep recursion, each half evaluated once.
Glue(l, r) ==
    SubSeq(l, 1, Len(l) - 1) \o <<l[Len(l)] \o r[1]>> \o SubSeq(r, 2, Len(r))

RECURSIVE Pieces(_, _, _)
Pieces(t, a, b) ==
    IF a > b THEN << <<>> >>
    ELSE IF a = b
         THEN IF t[a] = NL THEN << <<>>, <<>> >>
              ELSE IF t[a] = CR
                   THEN (IF a < Len(t) /\ t[a + 1] = NL THEN << <<>> >> ELSE << <<>>, <<>> >>)
              ELSE << <<t[a]>> >>
    ELSE LET mid == (a + b) \div 2
         IN The({Glue(l, r) : l \in {Pieces(t, a, mid)}, r \in {Pieces(t, mid + 1, b)}})

SplitLines(t) ==
    LET ps == Pieces(t, 1, Len(t))
    IN IF ps[Len(ps)] = <<>> THEN SubSeq(ps, 1, Len(ps) - 1) ELSE ps

\* '\n'.join(ls[a..b]), by halving
RECURSIVE JoinRange(_, _, _)
JoinRange(ls, a, b) ==
    IF a > b THEN <<>>
    ELSE IF a = b THEN ls[a]
    ELSE LET mid == (a + b) \div 2
         IN JoinRange(ls, a, mid) \o <<NL>> \o JoinRange(ls, mid + 1, b)

\* '\n'.join(ls)
JoinLines(ls) == JoinRange(ls, 1, Len(ls))

\* the index guards of the pass (0-based line indexes, as in the code)
ImportLine == 1
SelectStatusLine == 69
CountFirst == 80
CountLast == 85
Lookback == 10
CreatedAtFirst == 195
CreatedAtLast == 230
CreateSelectStatusLine == 287
UpdateSelectStatusLine == 383
DeleteFirst == 456
DeleteLast == 472
Return201First == 318
Return201Last == 327
ReturnUpdateFirst == 430
ReturnUpdateLast == 433
ReturnDeleteFirst == 488
ReturnDeleteLast == 492
ReturnResetFirst == 545
ReturnResetLast == 549

\* the texts the guards look for
StatusTrueComma == <<"status:", SP, "true", ",">>
CountKey == <<"_count:">>
ReturnWord == <<"return">>

\* if old in line: line = line.replace(old, new)
Edit(line, old, new) == IF Contains(line, old) THEN Replace(line, old, new) ELSE line

\* line = '    return ' + line.lstrip()   when the guard text is in the line,
\* cond holds and 'return' is not in the line
AddReturn(line, text, cond) ==
    IF Contains(line, text) /\ cond /\ ~Contains(line, ReturnWord)
    THEN <<IND4, "return", SP>> \o LStrip(line)
    ELSE line

\* lines[i] and lines[a:b] of the code, for 0-based i over the 1-based sequence
At(lines, i) == lines[i + 1]
Slice(lines, a, b) == {lines[j + 1] : j \in a..(Min(b, Len(lines)) - 1)}

\* The edits of one iteration, in the order of the code.  Each step is written
\* as the image of the singleton holding the line so far, so that a step sees
\* the line as a value and every step is evaluated once.

\* the edits made before the `if i == 69` test (lines 17-31)
EditsA(i, lines) ==
    LET s0 == {At(lines, i)}
        s1 == {IF i = ImportLine THEN Edit(l, <<"Role, UserStatus">>, <<"UserRole">>) ELSE l :
                 l \in s0}
        s2 == {Edit(l, <<"z.nativeEnum(Role)">>, <<"z.nativeEnum(UserRole)">>) : l \in s1}
        s3 == {IF Contains(l, <<"z.nativeEnum(UserStatus)">>)
               THEN Replace(l, <<"status:", SP, "z.nativeEnum(UserStatus)", ".optional()">>,
                               <<"isActive:", SP, "z.boolean()", ".optional()">>)
               ELSE l : l \in s2}
    IN The({Edit(l, <<"if (status) where.status = status;">>,
                    <<"if (status) where.isActive = status === 'ACTIVE';">>) : l \in s3})

\* the edits between the `_count` test and the `if i in [287, 383]` test (lines 54-70)
EditsB(i, lines, line) ==
    LET s0 == {line}
        s1 == {IF /\ Contains(l, <<"orderBy:", SP, "{", SP, "createdAt:">>)
                  /\ <<"activityLog">> \in Slice(lines, Max(0, i - Lookback), i + 1)
               THEN Replace(l, <<"orderBy:", SP, "{", SP, "createdAt:", SP, "'desc'", SP, "}">>,
                               <<"orderBy:", SP, "{", SP, "timestamp:", SP, "'desc'", SP, "}">>)
               ELSE l : l \in s0}
        s2 == {IF Contains(l, <<"createdAt:", SP, "true", ",">>)
                  /\ i >= CreatedAtFirst /\ i <= CreatedAtLast
               THEN Replace(l, <<"createdAt:", SP, "true", ",">>, <<"timestamp:", SP, "true", ",">>)
               ELSE l : l \in s1}
        s3 == {Edit(l, <<"userId:", SP, "newUser.id", ",">>,
                       <<"recipientUserId:", SP, "newUser.id", ",">>) : l \in s2}
        s4 == {Edit(l, <<"userId:", SP, "updatedUser.id", ",">>,
                       <<"recipientUserId:", SP, "updatedUser.id", ",">>) : l \in s3}
        s5 == {Edit(l, <<"userId:", SP, "existingUser.id", ",">>,
                       <<"recipientUserId:", SP, "existingUser.id", ",">>) : l \in s4}
    IN The({Edit(l, <<"status:", SP, "'ACTIVE'">>, <<"isActive:", SP, "true">>) : l \in s5})

\* the edits after the `if i in [287, 383]` test (lines 78-109)
EditsC(i, line) ==
    LET inDelete == i >= DeleteFirst /\ i <= DeleteLast
        s0 == {line}
        s1 == {IF inDelete THEN Edit(l, <<"status:", SP, "true">>, <<"isActive:", SP, "true">>)
               ELSE l : l \in s0}
        s2 == {IF inDelete THEN Edit(l, <<"status === 'INACTIVE'">>, <<"!isActive">>)
               ELSE l : l \in s1}
        s3 == {IF inDelete
               THEN Edit(l, <<"status:", SP, "'INACTIVE'">>, <<"isActive:", SP, "false">>)
               ELSE l : l \in s2}
        s4 == {Edit(l, <<"where:", SP, "{", SP, "status:", SP, "'ACTIVE'", SP, "}">>,
                       <<"where:", SP, "{", SP, "isActive:", SP, "true", SP, "}">>) : l \in s3}
        s5 == {Edit(l, <<"errors:", SP, "error.errors">>, <<"errors:", SP, "error.issues">>) :
                 l \in s4}
        s6 == {Edit(l, <<"validatedData.status">>, <<"validatedData.isActive">>) : l \in s5}
        s7 == {AddReturn(l, <<"res.status(500).json(", "{", SP, "message:">>, TRUE) : l \in s6}
        s8 == {AddReturn(l, <<"res.status(201).json">>,
                         i >= Return201First /\ i <= Return201Last) : l \in s7}
        s9 == {AddReturn(l, <<"res.json(", "{">>,
                         i >= ReturnUpdateFirst /\ i <= ReturnUpdateLast) : l \in s8}
        s10 == {AddReturn(l, <<"res.json(", "{", SP, "message:">>,
                          i >= ReturnDeleteFirst /\ i <= ReturnDeleteLast) : l \in s9}
    IN The({AddReturn(l, <<"res.json(", "{", SP, "message:">>,
                      i >= ReturnResetFirst /\ i <= ReturnResetLast) : l \in s10})

\* `if i == 69 and 'status: true,' in line`
SelectStatusFires(i, lines) ==
    i = SelectStatusLine /\ Contains(EditsA(i, lines), StatusTrueComma)

\* `if i >= 80 and i <= 85 and '_count:' in line`
CountFires(i, lines) ==
    /\ ~SelectStatusFires(i, lines)
    /\ i >= CountFirst /\ i <= CountLast
    /\ Contains(EditsA(i, lines), CountKey)

\* `if i in [287, 383] and 'status: true,' in line`
LaterStatusFires(i, lines) ==
    /\ ~SelectStatusFires(i, lines) /\ ~CountFires(i, lines)
    /\ i \in {CreateSelectStatusLine, UpdateSelectStatusLine}
    /\ Contains(EditsB(i, lines, EditsA(i, lines)), StatusTrueComma)

\* the line one iteration of the outer loop appends, when it appends one
Appended(i, lines) ==
    IF SelectStatusFires(i, lines) THEN Replace(EditsA(i, lines), StatusTrueComma, <<>>)
    ELSE IF LaterStatusFires(i, lines)
         THEN Replace(EditsB(i, lines, EditsA(i, lines)), StatusTrueComma, <<>>)
    ELSE EditsC(i, EditsB(i, lines, EditsA(i, lines)))

\* one iteration of the inner loop at line i with depth d: <<depth after, break?>>
HasOpen(line) == Contains(line, <<"{">>)
HasClose(line) == Contains(line, <<"}">>)
InnerDepth(d, line) ==
    LET d1 == IF HasOpen(line) THEN d + 1 ELSE d
    IN IF HasClose(line) THEN d1 - 1 ELSE d1
InnerBreaks(d, line) == HasClose(line) /\ InnerDepth(d, line) = 0

(***************************************************************************)
(* State                                                                   *)
(***************************************************************************)
VARIABLES
    pc,         \* where the running script is
    disk,       \* path -> [exists, data]: the files on disk
    lines,      \* fix_user_controller.py: the lines read
    new_lines,  \* fix_user_controller.py: the output built so far
    i,          \* fix_user_controller.py: the line index
    depth,      \* fix_user_controller.py: the brace depth of the inner loop
    origin,     \* history: the index i each line of new_lines was appended at
    prog,       \* the script run: the sequence of its patchers
    cur,        \* the patcher running (index into prog)
    content,    \* the patcher's buffer
    k,          \* the number of rules of the patcher applied to the buffer
    rules,      \* re.sub on its own: the rule list the rules are taken from
    first,      \* re.sub on its own: the rule applied first (0: none yet)
    second      \* re.sub on its own: the rule applied second (0: none yet)

passVars == <<lines, new_lines, i, depth, origin>>
sessionVars == <<prog, cur, k>>
subVars == <<rules, first, second>>
vars == <<pc, disk, content, passVars, sessionVars, subVars>>

File(data) == [exists |-> TRUE, data |-> data]
Missing == [exists |-> FALSE, data |-> <<>>]

(***************************************************************************)
(* Spec: fix_user_controller.py run on one file                            *)
(***************************************************************************)
UserPath == "backend/src/controllers/userController.ts"

\* lines after the last line a guard can select
Pad == 2

Filler == <<"const x = 1;">>
StatusOnly == <<IND8, "status:", SP, "true", ",">>
ResJson == <<IND4, "res.json(", "{", SP, "message:", SP, "'ok'", SP, "}", ");">>

\* `_count` blocks: the one the script was written for, and other shapes
CountBlocks ==
    { <<>>,
      << <<IND10, "_count:", SP, "{">>,
         <<IND12, "select:", SP, "{">>,
         <<IND14, "createdDocuments:", SP, "true", ",">>,
         <<IND14, "assignedDocuments:", SP, "true">>,
         <<IND12, "}">>,
         <<IND10, "}", ",">> >>,
      << <<IND10, "_count:", SP, "{", SP, "select:", SP, "{">>,
         <<IND14, "createdDocuments:", SP, "true", SP, "}">>,
         <<IND10, "}", ",">> >>,
      << <<IND10, "_count:", SP, "{", SP, "select:", SP, "{", SP, "createdDocuments:", SP,
           "true", SP, "}", SP, "}", ",">> >>,
      << <<IND10, "_count:", SP, "true", ",">> >>,
      << <<IND10, "_count:", SP, "{">>,
         <<IND12, "select:", SP, "true">> >> }

CountStarts == {CountFirst, CountLast, CountLast + 1}

\* lines put at chosen indexes: each probe is a set of <<index, line>>
Probes ==
    LET import == <<"import", SP, "{", SP, "PrismaClient", ",", SP, "Role, UserStatus", SP,
                    "}", SP, "from '../generated/prisma';">>
        idStatus == <<IND8, "id:", SP, "true", ",", SP, "status:", SP, "true", ",">>
        createdAt == <<IND10, "createdAt:", SP, "true", ",">>
        orderBy == <<IND6, "orderBy:", SP, "{", SP, "createdAt:", SP, "'desc'", SP, "}", ",">>
        res500 == <<IND4, "res.status(500).json(", "{", SP, "message:", SP,
                    "'Internal server error'", SP, "}", ");">>
        res201 == <<IND4, "res.status(201).json", "(newUser);">>
        zod == <<IND2, "role:", SP, "z.nativeEnum(Role)", ",", SP, "status:", SP,
                 "z.nativeEnum(UserStatus)", ".optional()", ",">>
        notify == <<IND8, "userId:", SP, "newUser.id", ",", SP, "status:", SP, "'ACTIVE'">>
        inactive == <<IND4, "if (user.", "status === 'INACTIVE'", ")", SP, "where:", SP, "{", SP,
                      "status:", SP, "'INACTIVE'", SP, "}">>
    IN { {},
         {<<ImportLine, import>>}, {<<ImportLine + 1, import>>},
         {<<3, zod>>}, {<<4, notify>>}, {<<5, res500>>},
         {<<SelectStatusLine, StatusOnly>>}, {<<SelectStatusLine, idStatus>>},
         {<<SelectStatusLine + 1, StatusOnly>>},
         {<<CreatedAtFirst, createdAt>>}, {<<CreatedAtLast + 1, createdAt>>},
         {<<CreatedAtFirst, <<"activityLog">>>>, <<CreatedAtFirst + Lookback, orderBy>>},
         {<<CreatedAtFirst, <<"activityLog">>>>, <<CreatedAtFirst + Lookback + 1, orderBy>>},
         {<<CreateSelectStatusLine, StatusOnly>>},
         {<<UpdateSelectStatusLine, StatusOnly>>},
         {<<Return201First, res201>>},
         {<<ReturnUpdateLast, ResJson>>}, {<<ReturnUpdateLast + 1, ResJson>>},
         {<<DeleteFirst, StatusOnly>>}, {<<DeleteLast, inactive>>},
         {<<ReturnDeleteFirst, ResJson>>}, {<<ReturnResetLast, ResJson>>} }

LastIndex(block, start, probe) ==
    LET used == {p[1] : p \in probe}
                  \cup (IF block = <<>> THEN {} ELSE {start + Len(block) - 1})
    IN IF used = {} THEN -1 ELSE CHOOSE m \in used : \A u \in used : u <= m

\* the file: filler lines, the block at `start`, the probe's lines at their indexes
InputLines(block, start, probe) ==
    [j \in 1..(LastIndex(block, start, probe) + 1 + Pad) |->
        IF j - 1 >= start /\ j - 1 < start + Len(block) THEN block[j - start]
        ELSE IF \E p \in probe : p[1] = j - 1
             THEN (CHOOSE p \in probe : p[1] = j - 1)[2]
        ELSE Filler]

\* how the file's last line ends
Endings == {<<>>, <<NL>>, <<CR, NL>>}

InitWith(probes) ==
    /\ pc = "read"
    /\ \/ disk = [p \in {UserPath} |-> Missing]
       \/ \E block \in CountBlocks, start \in CountStarts, probe \in probes, eof \in Endings :
            disk = [p \in {UserPath} |->
                      File(JoinLines(InputLines(block, start, probe)) \o eof)]
    /\ lines = <<>> /\ new_lines = <<>> /\ i = 0 /\ depth = 0 /\ origin = <<>>
    /\ content = <<>>
    /\ prog = <<>> /\ cur = 0 /\ k = 0
    /\ rules = <<>> /\ first = 0 /\ second = 0

InitPass == InitWith(Probes)

\* lines = file_path.read_text(encoding='utf-8').splitlines(); new_lines = []; i = 0
ReadLines ==
    /\ pc = "read" /\ disk[UserPath].exists
    /\ lines' = SplitLines(disk[UserPath].data)
    /\ new_lines' = <<>> /\ i' = 0 /\ origin' = <<>>
    /\ pc' = "scan"
    /\ UNCHANGED <<disk, depth, content, sessionVars, subVars>>

\* read_text raises (no such file): nothing catches it
ReadLinesFails ==
    /\ pc = "read" /\ ~disk[UserPath].exists
    /\ pc' = "failed"
    /\ UNCHANGED <<disk, content, passVars, sessionVars, subVars>>

\* the index the guards of an iteration test: i, the index into `lines`
GuardIndexOutput(idx, out) == Len(out)
GuardIndex(idx, out) == idx

\* an iteration that ends in new_lines.append(...); i += 1  (lines 35-36, 74-75, 111-112)
AppendLine ==
    /\ pc = "scan" /\ i < Len(lines)
    /\ ~CountFires(GuardIndex(i, new_lines), lines)
    /\ new_lines' = Append(new_lines, Appended(GuardIndex(i, new_lines), lines))
    /\ origin' = Append(origin, i)
    /\ i' = i + 1
    /\ UNCHANGED <<pc, disk, lines, depth, content, sessionVars, subVars>>

\* where the inner loop leaves i after one iteration (i += 1 on both paths)
InnerNextStuck(idx) == idx
InnerNext(idx) == idx + 1

\* the `_count` guard fires: depth = 0 and the first iteration of the inner loop
EnterSkip ==
    /\ pc = "scan" /\ i < Len(lines)
    /\ CountFires(GuardIndex(i, new_lines), lines)
    /\ depth' = InnerDepth(0, At(lines, i))
    /\ i' = InnerNext(i)
    /\ pc' = IF InnerBreaks(0, At(lines, i)) THEN "scan" ELSE "skip"
    /\ UNCHANGED <<disk, lines, new_lines, origin, content, sessionVars, subVars>>

\* a further iteration of the inner loop
SkipLine ==
    /\ pc = "skip" /\ i < Len(lines)
    /\ depth' = InnerDepth(depth, At(lines, i))
    /\ i' = InnerNext(i)
    /\ pc' = IF InnerBreaks(depth, At(lines, i)) THEN "scan" ELSE "skip"
    /\ UNCHANGED <<disk, lines, new_lines, origin, content, sessionVars, subVars>>

\* the inner loop runs off the end of the file; `continue`
SkipEnds ==
    /\ pc = "skip" /\ i >= Len(lines)
    /\ pc' = "scan"
    /\ UNCHANGED <<disk, content, passVars, sessionVars, subVars>>

\* the outer loop ends
ScanEnds ==
    /\ pc = "scan" /\ i >= Len(lines)
    /\ pc' = "write"
    /\ UNCHANGED <<disk, content, passVars, sessionVars, subVars>>

\* file_path.write_text('\n'.join(new_lines), encoding='utf-8')
WriteLines ==
    /\ pc = "write"
    /\ disk' = [disk EXCEPT ![UserPath] = File(JoinLines(new_lines))]
    /\ pc' = "done"
    /\ UNCHANGED <<content, passVars, sessionVars, subVars>>

NextPass ==
    \/ ReadLines \/ ReadLinesFails \/ AppendLine \/ EnterSkip \/ SkipLine \/ SkipEnds
    \/ ScanEnds \/ WriteLines

Spec == InitPass /\ [][NextPass]_vars

\* the files whose probe lies before the `_count` window
InitShort == InitWith({probe \in Probes : \A p \in probe : p[1] < CountFirst})

\* the script keeps running until it ends
LiveSpec == InitShort /\ [][NextPass]_vars /\ WF_vars(NextPass)

(***************************************************************************)
(* SpecSub: re.sub applied once or twice to a buffer, for every rule list  *)
(***************************************************************************)
StatusPath == "backend/src/controllers/statusController.ts"
SearchPath == "backend/src/controllers/searchController.ts"
AuthPath == "backend/src/controllers/authController.ts"
UploadPath == "backend/src/middleware/upload.ts"

\* number of text fragments a buffer is put together from
MaxFrags == 2

OrderByText == <<"orderBy:", SP, "{", SP, "createdAt:", SP, "'desc'", SP, "}">>
CreatedAtText == <<"createdAt:", SP, "true", ",">>
UserKeyText == <<NL, IND8, "user", ":">>
StatusActiveText == <<"status:", SP, "'ACTIVE'">>
CommaStatusText == <<",", SP, "status:", SP, "true">>
NotificationText ==
    <<NL, IND8, "recipientUserId:", SP, "newUser.id", ",",
      NL, IND8, "title:", SP, "'Welcome'", ",",
      NL, IND8, "message:", SP, "`Hello`", ",",
      NL, IND8, "type:", SP, "'INFO'", ",",
      NL, IND8, "relatedId:", SP, "newUser.id">>
CatchText ==
    <<"}", ");", NL, IND2, "}", SP, "catch (error)", SP, "{",
      NL, IND4, "console.error('Error fetching users:', error);",
      NL, IND4, "res.status(500).json(", "{", SP, "message:", SP, "'Internal server error'",
      SP, "}", ");", NL, IND2, "}", NL, "}", ";">>

\* the texts a buffer of each rule list is put together from: texts the rules
\* match, texts a rule turns into a match of another, and texts next to them
FragmentsFor(rs) ==
    IF rs = StatusRules THEN
        { OrderByText, CreatedAtText, UserKeyText,
          <<"userId:", SP, "document.createdById">>,
          <<"select:", SP, "{", SP, "id:", SP, "true", ",", SP, "fullName:", SP, "true", ",",
            SP, "role:", SP, "true", ",", SP, "status:", SP, "true", SP, "}">>,
          <<"assignee.status", SP, "!==", SP, "'ACTIVE'">> }
    ELSE IF rs = UserRules THEN
        { <<"import", SP, "{", SP, "PrismaClient", ",", SP, "Role, UserStatus", SP, "}", SP,
            "from '../generated/prisma';", NL>>
            \o OrderByText \o <<NL>> \o StatusActiveText
            \o <<NL, "status:", SP, "z.nativeEnum(UserStatus)", ".optional()", ",", SP,
                 "errors:", SP, "error.errors">>,
          CreatedAtText, UserKeyText,
          <<"userId:", SP, "newUser.id">> \o CommaStatusText,
          <<"departmentId:", SP, "true", ",", NL, IND10, "createdAt:", SP, "true", ",",
            NL, IND10, "updatedAt:", SP, "true", ",">>,
          CatchText }
    ELSE IF rs = SearchRules THEN
        { <<"mode:", SP, "'insensitive'">>,
          <<"{", SP, "content:", SP, "{", SP, "contains:", SP, "query", ",", SP,
            "mode:", SP, "'insensitive'", SP, "}", SP, "}", ",">>,
          <<"categories:", SP, "{">>,
          <<"role:", SP, "true", ",", NL, IND8, "status:", SP, "true", ",">>,
          StatusActiveText,
          <<NL, IND6, "users: users.map(user => (", "{", SP, "id: user.id", ",", SP,
            "department: user.department?.name">>,
          <<SP, "}">> }
    ELSE IF rs = AuthRules THEN
        { <<"return", SP, "res.status(429).json(response);">>, <<NL>>, <<"return">> }
    ELSE IF rs = UploadRules THEN
        { <<"next();", NL, "}", ";">>, <<"next();">>, <<"}", ";">>, <<"return", SP>> }
    ELSE
        { NotificationText, <<",">>, <<NL, "}">>, <<NL>> }

\* the concatenations of at most n fragments
RECURSIVE BuffersOf(_, _)
BuffersOf(frags, n) ==
    IF n = 0 THEN {<<>>}
    ELSE LET shorter == BuffersOf(frags, n - 1)
         IN shorter \cup {b \o f : b \in shorter, f \in frags}

RuleLists == {StatusRules, UserRules, SearchRules, AuthRules, UploadRules, NotificationRules}

ScratchPath == "buffer"
Source == disk[ScratchPath].data

InitSub ==
    /\ pc = "sub"
    /\ \E rs \in RuleLists : \E buf \in BuffersOf(FragmentsFor(rs), MaxFrags) :
         /\ rules = rs
         /\ disk = [p \in {ScratchPath} |-> File(buf)]
         /\ content = buf
    /\ first = 0 /\ second = 0
    /\ lines = <<>> /\ new_lines = <<>> /\ i = 0 /\ depth = 0 /\ origin = <<>>
    /\ prog = <<>> /\ cur = 0 /\ k = 0

\* content = re.sub(...) with one rule of the list
SubFirst ==
    /\ pc = "sub" /\ first = 0
    /\ \E a \in 1..Len(rules) :
         /\ content' = Sub(rules[a], content)
         /\ first' = a
    /\ UNCHANGED <<pc, disk, rules, second, passVars, sessionVars>>

\* content = re.sub(...) with a rule of the list, on the buffer the first left
SubSecond ==
    /\ pc = "sub" /\ first # 0 /\ second = 0
    /\ \E b \in 1..Len(rules) :
         /\ content' = Sub(rules[b], content)
         /\ second' = b
    /\ UNCHANGED <<pc, disk, rules, first, passVars, sessionVars>>

NextSub == SubFirst \/ SubSecond

SpecSub == InitSub /\ [][NextSub]_vars

(***************************************************************************)
(* SpecSession: a script run from its first patcher to its end             *)
(***************************************************************************)
Patcher(path, rs) == [path |-> path, rules |-> rs]

\* if __name__ == "__main__": the five patchers of fix_errors.py, in order
FixErrorsMain ==
    << Patcher(StatusPath, StatusRules), Patcher(UserPath, UserRules),
       Patcher(SearchPath, SearchRules), Patcher(AuthPath, AuthRules),
       Patcher(UploadPath, UploadRules) >>

\* the two module-level calls of fix_notifications.py, in order
FixNotificationsMain ==
    << Patcher(StatusPath, NotificationRules), Patcher(UserPath, NotificationRules) >>

Paths == {StatusPath, UserPath, SearchPath, AuthPath, UploadPath}

\* what a file holds when it exists
SampleOf(path) ==
    IF path = StatusPath
        THEN OrderByText \o <<NL>> \o CreatedAtText \o UserKeyText \o NotificationText
    ELSE IF path = UserPath
        THEN CreatedAtText \o UserKeyText \o <<NL>> \o StatusActiveText \o CommaStatusText
               \o NotificationText
    ELSE IF path = SearchPath
        THEN <<"{", SP, "content:", SP, "{", SP, "contains:", SP, "query", ",", SP,
               "mode:", SP, "'insensitive'", SP, "}", SP, "}", ",">>
    ELSE IF path = AuthPath
        THEN <<"return", SP, "res.status(429).json(response);">>
    ELSE <<"next();", NL, "}", ";">>

\* the patcher running, and the file it patches
Running == prog[cur]
Target == Running.path

InitRun ==
    /\ pc = "read_text"
    /\ prog \in {FixErrorsMain, FixNotificationsMain}
    /\ cur = 1
    /\ \E missing \in SUBSET Paths :
         disk = [p \in Paths |-> IF p \in missing THEN Missing ELSE File(SampleOf(p))]
    /\ content = <<>> /\ k = 0
    /\ lines = <<>> /\ new_lines = <<>> /\ i = 0 /\ depth = 0 /\ origin = <<>>
    /\ rules = <<>> /\ first = 0 /\ second = 0

\* the run of fix_user_controller.py on a file with a `_count` block
InitSession == InitRun \/ InitWith({{}})

\* content = file_path.read_text(encoding='utf-8')
ReadText ==
    /\ pc = "read_text" /\ disk[Target].exists
    /\ content' = disk[Target].data
    /\ k' = 0
    /\ pc' = "rewrite"
    /\ UNCHANGED <<disk, prog, cur, passVars, subVars>>

\* read_text raises (no such file); no patcher and no caller catches it
ReadTextFails ==
    /\ pc = "read_text" /\ ~disk[Target].exists
    /\ pc' = "aborted"
    /\ UNCHANGED <<disk, content, passVars, sessionVars, subVars>>

\* where the patcher goes after its n-th re.sub: the next one, or write_text
AfterRuleEarly(n, rs) == "write_text"
AfterRule(n, rs) == IF n < Len(rs) THEN "rewrite" ELSE "write_text"

\* content = re.sub(pattern, repl, content): the next rule of the patcher
ApplyRule ==
    /\ pc = "rewrite" /\ k < Len(Running.rules)
    /\ content' = Sub(Running.rules[k + 1], content)
    /\ k' = k + 1
    /\ pc' = AfterRule(k + 1, Running.rules)
    /\ UNCHANGED <<disk, prog, cur, passVars, subVars>>

\* an exception leaves re.sub (MemoryError, KeyboardInterrupt); nothing catches it
RuleRaises ==
    /\ pc = "rewrite" /\ k < Len(Running.rules)
    /\ pc' = "aborted"
    /\ UNCHANGED <<disk, content, passVars, sessionVars, subVars>>

\* file_path.write_text(content): open(path, 'w') truncates the file, or makes it
OpenWrite ==
    /\ pc = "write_text"
    /\ disk' = [disk EXCEPT ![Target] = File(<<>>)]
    /\ pc' = "flush"
    /\ UNCHANGED <<content, passVars, sessionVars, subVars>>

\* open(path, 'w') raises (PermissionError, no directory); nothing catches it
OpenWriteFails ==
    /\ pc = "write_text"
    /\ pc' = "aborted"
    /\ UNCHANGED <<disk, content, passVars, sessionVars, subVars>>

\* f.write(data) and the close of the file: the data reaches the file
Flush ==
    /\ pc = "flush"
    /\ disk' = [disk EXCEPT ![Target] = File(content)]
    /\ pc' = "return"
    /\ UNCHANGED <<content, passVars, sessionVars, subVars>>

\* the write stops part way (OSError, the process is killed): the file keeps
\* what had reached it
FlushInterrupted ==
    /\ pc = "flush"
    /\ \E n \in 0..(Len(content) - 1) :
         disk' = [disk EXCEPT ![Target] = File(SubSeq(content, 1, n))]
    /\ pc' = "aborted"
    /\ UNCHANGED <<content, passVars, sessionVars, subVars>>

\* the patcher returns and the script calls the next one
NextPatcher ==
    /\ pc = "return" /\ cur < Len(prog)
    /\ cur' = cur + 1
    /\ pc' = "read_text"
    /\ UNCHANGED <<disk, content, prog, k, passVars, subVars>>

\* the last patcher returns: print("All fixes applied!")
LastReturns ==
    /\ pc = "return" /\ cur = Len(prog)
    /\ pc' = "exit"
    /\ UNCHANGED <<disk, content, passVars, sessionVars, subVars>>

NextRun ==
    \/ ReadText \/ ReadTextFails \/ ApplyRule \/ RuleRaises
    \/ OpenWrite \/ OpenWriteFails \/ Flush \/ FlushInterrupted
    \/ NextPatcher \/ LastReturns

NextSession == NextRun \/ NextPass

SpecSession == InitSession /\ [][NextSession]_vars

(***************************************************************************)
(* Claims about a script run                                               *)
(***************************************************************************)
\* the run has ended: at its last statement, or by an exception
Stopped == pc \in {"exit", "aborted"}

\* C1: a fatal failure on one file does not abort the run: a run that has
\* stopped has gone through every patcher of its sequence, the ones after a
\* failing one included.
C1_SessionIsolation == Stopped /\ prog # <<>> => cur = Len(prog)

\* C2: the write-back never leaves the target file truncated or partly written:
\* every step that changes a file of a patcher puts the complete new content
\* in it.
C2_AtomicWrite ==
    [][\A p \in Paths :
         (prog # <<>> /\ disk'[p] # disk[p]) => disk'[p] = File(content)]_vars

\* the buffer after the first n rules of rs, each applied to the buffer the
\* one before it produced
RECURSIVE ApplyUpTo(_, _, _)
ApplyUpTo(rs, n, buf) ==
    IF n = 0 THEN buf ELSE Sub(rs[n], ApplyUpTo(rs, n - 1, buf))

\* C3: a patcher writes its file only after every rule of its list has been
\* applied, in order, to the buffer it read, each rule on the buffer the one
\* before it produced (for fix_user_controller.py: after every line has been
\* gone through); it writes only its own file and after the write neither
\* rewrites nor writes again; a failed read or rule application leaves the
\* disk as it was.
C3_NoHalfProcessedWrite ==
    [][/\ (disk' # disk /\ prog # <<>>) =>
             /\ pc \in {"write_text", "flush"}
             /\ k = Len(Running.rules)
             /\ \A p \in Paths \ {Target} : disk'[p] = disk[p]
       /\ (disk' # disk /\ prog = <<>>) =>
             /\ pc = "write" /\ pc' = "done"
             /\ i >= Len(lines)
       /\ pc = "write_text" =>
             content = ApplyUpTo(Running.rules, Len(Running.rules), disk[Target].data)
       /\ (pc \in {"flush", "return"} /\ cur' = cur) =>
             pc' \notin {"read_text", "rewrite", "write_text"}
       /\ pc = "done" => pc' = "done"
       /\ pc' \in {"aborted", "failed"} /\ pc \in {"read_text", "rewrite", "read"} =>
             disk' = disk]_vars

\* a later patcher of the run, one with several rules, has written the buffer
\* its rules rewrote to its file
C3_Witness ==
    /\ pc = "return" /\ cur > 1
    /\ Len(Running.rules) > 1
    /\ disk[Target] = File(content)
    /\ content # SampleOf(Target)

(***************************************************************************)
(* Claims about the positional pass                                        *)
(***************************************************************************)
Indexes(seq) == {seq[n] : n \in 1..Len(seq)}
Kept == Indexes(origin)

\* number of '{' minus number of '}' in a line
Braces(line) ==
    Cardinality({p \in 1..Len(line) : line[p] = "{"})
      - Cardinality({p \in 1..Len(line) : line[p] = "}"})

\* the same over the lines with indexes a..b, by halving
RECURSIVE Balance(_, _, _)
Balance(ls, a, b) ==
    IF a > b THEN 0
    ELSE IF a = b THEN Braces(At(ls, a))
    ELSE LET mid == (a + b) \div 2
         IN Balance(ls, a, mid) + Balance(ls, mid + 1, b)

\* the guarded line s opens a brace group that some line closes
HasBlock(ls, s) ==
    /\ Braces(At(ls, s)) > 0 \/ (HasOpen(At(ls, s)) /\ Braces(At(ls, s)) = 0)
    /\ \E e \in s..(Len(ls) - 1) : Balance(ls, s, e) = 0

\* the line that closes the brace group opened on line s
BlockEnd(ls, s) ==
    CHOOSE e \in s..(Len(ls) - 1) :
        /\ Balance(ls, s, e) = 0
        /\ \A e2 \in s..(e - 1) : Balance(ls, s, e2) # 0

\* the first index after s that was kept (Len(lines) if none)
NextKept(s) ==
    IF \E j \in Kept : j > s
    THEN CHOOSE j \in Kept : j > s /\ \A j2 \in Kept : j2 > s => j <= j2
    ELSE Len(lines)

\* the `_count` guard fired at s in the outer loop: s is in the window, holds
\* `_count:`, was not appended, and the line before it was
CountFiredAt(s) ==
    /\ s >= CountFirst /\ s <= CountLast /\ s < Len(lines)
    /\ CountFires(s, lines)
    /\ s \notin Kept /\ (s - 1) \in Kept

\* C6: when the `_count:` rule fires on a line of its window, the lines removed
\* are exactly the lines from the guarded line through the line closing the
\* brace group opened on it, the line after the block is kept, and the removed
\* lines hold as many '{' as '}'.
C6_BraceBalancedDeletion ==
    pc = "write" =>
        \A s \in CountFirst..CountLast :
            (CountFiredAt(s) /\ HasBlock(lines, s)) =>
                /\ NextKept(s) = BlockEnd(lines, s) + 1
                /\ Balance(lines, s, NextKept(s) - 1) = 0

WhitespaceOnly(line) == \A p \in 1..Len(line) : line[p] \in WS

\* a 'status: true,' removal fired at index s
StatusFiresAt(s) == SelectStatusFires(s, lines) \/ LaterStatusFires(s, lines)

\* the line appended last and the index it was appended at
LastOut == new_lines[Len(new_lines)]
LastOrigin == origin[Len(origin)]

\* C7: when a 'status: true,' removal (indexes 69, 287, 383) leaves nothing but
\* white space of the line, the output holds no line for it.
C7_DeletionRemovesLine ==
    new_lines # <<>> =>
        ~(/\ StatusFiresAt(LastOrigin)
          /\ WhitespaceOnly(Replace(At(lines, LastOrigin), StatusTrueComma, <<>>))
          /\ WhitespaceOnly(LastOut))

\* C8: every guard of the pass is evaluated with the line's index in the buffer
\* as it was read and against the original line array: the line array is the
\* one read from disk and no step of the pass changes it, and the line an
\* iteration appends is what the guards make of the original line at its
\* original index i, whatever was deleted or edited before it; an iteration
\* appends a line unless the `_count` guard selects the original line i.
C8_OriginalPositions ==
    [][/\ pc = "read" /\ pc' = "scan" => lines' = SplitLines(disk[UserPath].data)
       /\ pc # "read" => lines' = lines
       /\ pc = "scan" /\ i < Len(lines) =>
             (Len(new_lines') > Len(new_lines) <=> ~CountFires(i, lines))
       /\ Len(new_lines') > Len(new_lines) =>
             /\ i < Len(lines)
             /\ new_lines' = Append(new_lines, Appended(i, lines))
             /\ i' = i + 1]_vars

\* a block was skipped and a later index-window guard still edited its line
C8_Witness ==
    /\ new_lines # <<>>
    /\ LastOrigin # Len(new_lines) - 1
    /\ LastOrigin >= CreatedAtFirst
    /\ LastOut # At(lines, LastOrigin)

\* C9: when no guard fires on any line, the content written back is
\* byte-identical to the content read.
C9_NoOpPreservesBytes ==
    [][(pc = "write" /\ new_lines = lines) => disk' = disk]_vars

\* C10: every iteration of the outer and of the inner loop strictly increases
\* i, i never decreases, and the scan reaches the write step.
C10_ScanTerminates ==
    /\ [][((pc \in {"scan", "skip"} /\ i < Len(lines)) => i' > i) /\ i' >= i]_vars
    /\ (pc = "scan") ~> (pc = "write")

\* the inner loop ran off the end of the file without closing its group, and
\* the scan went on to the write step
C10_Witness ==
    pc = "write" /\ depth # 0 /\ Len(new_lines) < Len(lines)

(***************************************************************************)
(* Claims about the re.sub rules                                           *)
(***************************************************************************)
\* C4: for every rule and every buffer, applying the rule to the output of its
\* own first application finds no further match and leaves the buffer as it is.
C4_RuleIdempotent ==
    /\ (first # 0 /\ second = 0) => Spans(rules[first], content) = <<>>
    /\ (first # 0 /\ second = first) => content = Sub(rules[first], Source)

\* no span of sa and span of sb share a position
DisjointSpans(sa, sb) ==
    \A m \in 1..Len(sa), n \in 1..Len(sb) : sa[m][2] <= sb[n][1] \/ sb[n][2] <= sa[m][1]

\* the regions rules a and b match in buf do not intersect
Disjoint(a, b, buf) ==
    \E sa \in {Spans(a, buf)}, sb \in {Spans(b, buf)} : DisjointSpans(sa, sb)

\* the final buffer is the one the other order gives
OtherOrderAgrees == content = Sub(rules[first], Sub(rules[second], Source))

\* C5 as stated: for two rules of one list and a buffer on which the regions
\* they match do not intersect, either order gives the same final buffer.
C5_DisjointRulesCommute ==
    (first # 0 /\ second # 0 /\ first # second
       /\ Disjoint(rules[first], rules[second], Source))
    => OtherOrderAgrees

\* where position p of buf lies after rule a has replaced its spans sa
RECURSIVE Moved(_, _, _, _)
Moved(a, buf, sa, p) ==
    IF sa = <<>> \/ Head(sa)[2] > p THEN p
    ELSE Moved(a, buf, Tail(sa), p)
           + Len(Expand(a, buf, MatchAt(a.pat, buf, Head(sa)[1])))
           - (Head(sa)[2] - Head(sa)[1])

\* the spans sb of buf, moved by a's replacements of its spans sa
MovedSpans(a, buf, sa, sb) ==
    [n \in 1..Len(sb) |->
        The({<<q, q + sb[n][2] - sb[n][1]>> : q \in {Moved(a, buf, sa, sb[n][1])}})]

\* rule b matches in the output of rule a exactly the spans it matches in buf,
\* moved by a's replacements: a neither makes nor unmakes a match of b
Keeps(a, b, buf) ==
    \E sa \in {Spans(a, buf)}, sb \in {Spans(b, buf)} :
        Spans(b, Sub(a, buf)) = MovedSpans(a, buf, sa, sb)

\* the regions do not intersect, and stay the other rule's matches
StableDisjoint(a, b, buf) ==
    /\ Disjoint(a, b, buf)
    /\ Keeps(a, b, buf)
    /\ Keeps(b, a, buf)

\* C5 as amended: for two rules of one list and a buffer on which the regions
\* they match do not intersect and on which each rule matches, in the other's
\* output, exactly the spans it matches in the input, either order gives the
\* same final buffer.
C5_StableDisjointRulesCommute ==
    (first # 0 /\ second # 0 /\ first # second
       /\ StableDisjoint(rules[first], rules[second], Source))
    => OtherOrderAgrees

\* both rules replaced something, in disjoint regions kept by the other rule
C5_Witness ==
    /\ first # 0 /\ second # 0 /\ first # second
    /\ Spans(rules[first], Source) # <<>> /\ Spans(rules[second], Source) # <<>>
    /\ StableDisjoint(rules[first], rules[second], Source)
    /\ rules[second].grp # <<>>
    /\ content # Source
====
